---- MODULE Spec2Model ----
(***************************************************************************)
(* Model of main.py: the council-agenda pipeline (scrape_links,            *)
(* summarize_with_gemini, post_to_twitter, generate_tweet, main) and the   *)
(* council_meetings table it keeps.                                        *)
(***************************************************************************)
EXTENDS Integers, Sequences, FiniteSets, TLC

(***************************************************************************)
(* Text.  A Python str is a sequence of tokens; a token is a run of n      *)
(* characters: one space, one line break, or n non-whitespace characters.  *)
(* The program only ever cuts or joins text at whitespace, so len, split,  *)
(* splitlines and + are exact on this representation.                      *)
(***************************************************************************)
SP == [ch |-> " ", n |-> 1]
NL == [ch |-> "\n", n |-> 1]
W(name, k) == [ch |-> name, n |-> k]
Lit(name) == [ch |-> name, n |-> Len(name)]

isspace(t) == t.ch \in {" ", "\n"}

RECURSIVE len(_)
len(s) == IF s = <<>> THEN 0 ELSE Head(s).n + len(Tail(s))

\* str.splitlines(): cut at every line break; no empty last line
RECURSIVE splitlines_from(_, _, _)
splitlines_from(s, cur, started) ==
  IF s = <<>> THEN (IF started THEN <<cur>> ELSE <<>>)
  ELSE IF Head(s) = NL THEN <<cur>> \o splitlines_from(Tail(s), <<>>, FALSE)
  ELSE splitlines_from(Tail(s), Append(cur, Head(s)), TRUE)

splitlines(s) == splitlines_from(s, <<>>, FALSE)

\* str.split(): the maximal runs of non-whitespace characters
RECURSIVE split_from(_, _)
split_from(s, cur) ==
  IF s = <<>> THEN (IF cur = <<>> THEN <<>> ELSE <<cur>>)
  ELSE IF isspace(Head(s))
       THEN (IF cur = <<>> THEN <<>> ELSE <<cur>>) \o split_from(Tail(s), <<>>)
       ELSE split_from(Tail(s), Append(cur, Head(s)))

split(s) == split_from(s, <<>>)

(***************************************************************************)
(* generate_tweet                                                          *)
(***************************************************************************)
tweet_length_limit == 270

\* the word loop of an over-long line: [length, new_line_1, new_line_2]
RECURSIVE word_loop(_, _, _)
word_loop(words, acc, limit) ==
  IF words = <<>> THEN acc
  ELSE LET word == Head(words)
           length == acc.length + (len(word) + 1)
       IN  word_loop(Tail(words),
             [length |-> length,
              new_line_1 |-> IF length < limit THEN acc.new_line_1 \o word \o <<SP>>
                             ELSE acc.new_line_1,
              new_line_2 |-> IF length >= limit THEN acc.new_line_2 \o word \o <<SP>>
                             ELSE acc.new_line_2],
             limit)

\* line 245: the accumulator is appended before the pieces of an over-long line
long_line_flush(tweets, tweet) == tweets \o <<tweet>>

\* lines 265 and 268: the accumulator is completed before this line
flush_plus_separator(len_tweet, len_line, limit) == len_tweet + len_line + 1 >= limit
flush_before(len_tweet, len_line, limit) ==
  \/ len_tweet >= limit
  \/ len_tweet + len_line >= limit

\* lines 267 and 270: the accumulator restarted from the line
restart_with_space(line) == line \o <<SP>>
restart_from(line) == line

\* one iteration of the loop over lines, on [tweets, tweet]
line_step(st, line, limit) ==
  LET len_line == len(line) IN
  IF len_line >= limit
  THEN LET w == word_loop(split(line),
                  [length |-> 0, new_line_1 |-> <<>>, new_line_2 |-> <<>>], limit)
       IN  [tweets |-> long_line_flush(st.tweets, st.tweet)
                         \o <<w.new_line_1, w.new_line_2>>,
            tweet |-> <<>>]
  ELSE LET len_tweet == len(st.tweet) IN
       IF flush_before(len_tweet, len_line, limit)
       THEN [tweets |-> st.tweets \o <<st.tweet>>, tweet |-> restart_from(line)]
       ELSE [tweets |-> st.tweets, tweet |-> st.tweet \o line \o <<SP>>]

RECURSIVE line_loop(_, _, _)
line_loop(st, lines, limit) ==
  IF lines = <<>> THEN st
  ELSE line_loop(line_step(st, Head(lines), limit), Tail(lines), limit)

\* lines 274-275
final_flush_always(st) == st.tweets \o <<st.tweet>>
final_flush(st) == IF st.tweet # <<>> THEN st.tweets \o <<st.tweet>> ELSE st.tweets

generate_tweet_limit(lines, limit) ==
  final_flush(line_loop([tweets |-> <<>>, tweet |-> <<>>], lines, limit))

generate_tweet(lines) == generate_tweet_limit(lines, tweet_length_limit)

\* line 215: tweet + f" ({x + 1}/{tweet_chunks_len})", x counted from 0
suffix(x, total) == <<SP, Lit("(" \o ToString(x + 1) \o "/" \o ToString(total) \o ")")>>
render(tweet, x, total) == tweet \o suffix(x, total)

VARIABLES seg_pc, seg_limit, seg_summary, seg_lines, seg_chunks, seg_tweets
seg_vars == <<seg_pc, seg_limit, seg_summary, seg_lines, seg_chunks, seg_tweets>>

MaxTokens == 5
ExampleBudget == 20

Tokens == {SP, NL, W("a", 1), W("w134", 134), W("w269", 269), W("w270", 270)}

RECURSIVE SeqsUpTo(_, _)
SeqsUpTo(S, k) ==
  IF k = 0 THEN {<<>>}
  ELSE LET R == SeqsUpTo(S, k - 1) IN R \cup {Append(s, t) : s \in R, t \in S}

Summaries == SeqsUpTo(Tokens, MaxTokens)

ExampleLines ==
  << <<Lit("one"), SP, Lit("two")>>,
     <<Lit("three"), SP, Lit("four")>>,
     <<Lit("five"), SP, Lit("six"), SP, Lit("seven")>> >>

JoinLines(a, b, c) == a \o <<NL>> \o b \o <<NL>> \o c
ExampleSummaries ==
  {JoinLines(ExampleLines[i], ExampleLines[j], ExampleLines[k]) :
     i \in 1..3, j \in 1..3, k \in 1..3}

(***************************************************************************)
(* Optional values: None, or one value                                     *)
(***************************************************************************)
None == <<>>
Some(v) == <<v>>

(***************************************************************************)
(* The council page: anchors in page order.  An href is its characters;    *)
(* td is the bpsGridCommittee cell before the anchor's parent, if any.     *)
(***************************************************************************)
COUNCIL_URL == <<"https://huttcity.infocouncil.biz/">>
limit == 1

PDF == <<".", "P", "D", "F">>
AGN == <<"A", "G", "N">>
SUP == <<"S", "U", "P">>

endswith(s, suf) ==
  /\ Len(s) >= Len(suf)
  /\ SubSeq(s, Len(s) - Len(suf) + 1, Len(s)) = suf

\* sub in s
contains(s, sub) ==
  \E k \in 1..(Len(s) - Len(sub) + 1) : SubSeq(s, k, k + Len(sub) - 1) = sub

\* urljoin(COUNCIL_URL, href) for an href relative to the site or to its root
urljoin(base, href) ==
  base \o (IF href # <<>> /\ Head(href) = "/" THEN Tail(href) ELSE href)

\* soup.find_all("a", href=re.compile(r"\.PDF$"), limit=lim)
RECURSIVE find_all(_, _)
find_all(page, lim) ==
  IF page = <<>> \/ lim = 0 THEN <<>>
  ELSE IF endswith(Head(page).href, PDF)
       THEN <<Head(page)>> \o find_all(Tail(page), lim - 1)
       ELSE find_all(Tail(page), lim)

\* line 94
is_agenda_any(href) == endswith(href, PDF) /\ contains(href, AGN)
is_agenda(href) ==
  endswith(href, PDF) /\ contains(href, AGN) /\ ~contains(href, SUP)

\* line 98: SELECT url FROM council_meetings WHERE url = ?
select_url_href(table, found_link) == {row \in table : row.url = Tail(found_link)}
select_url(table, found_link) == {row \in table : row.url = found_link}

\* None when the function raises (line 122, committee_td is None)
find_committee_name_from_link(link) ==
  LET committee_td == link.td IN
  IF ~committee_td.present THEN None
  ELSE IF committee_td.br THEN Some(committee_td.pre)
  ELSE Some(committee_td.pre \o committee_td.post)

\* the loop of lines 89-109 over the anchors found; fail_at is the position
\* in new_links of the download (line 109) that raises, 0 when none does;
\* raised is the exception that leaves the loop: AttributeError from line 122
\* (reached at line 105, before the download), an httpx error from line 109
RECURSIVE scrape_loop(_, _, _, _)
scrape_loop(found_links, table, new_links, fail_at) ==
  IF found_links = <<>> THEN [raised |-> "none", new_links |-> new_links]
  ELSE LET link == Head(found_links) IN
       IF is_agenda(link.href)
       THEN LET found_link == urljoin(COUNCIL_URL, link.href)
                existing_url == select_url(table, found_link)
            IN  IF existing_url # {}
                THEN scrape_loop(Tail(found_links), table, new_links, fail_at)
                ELSE LET committee_name == find_committee_name_from_link(link) IN
                     IF committee_name = None
                     THEN [raised |-> "AttributeError", new_links |-> <<>>]
                     ELSE IF Len(new_links) + 1 = fail_at
                     THEN [raised |-> "HTTPError", new_links |-> <<>>]
                     ELSE scrape_loop(Tail(found_links), table,
                            Append(new_links,
                              [committee_name |-> committee_name[1], link |-> found_link]),
                            fail_at)
       ELSE scrape_loop(Tail(found_links), table, new_links, fail_at)

\* scrape_links once the page has been fetched: [anchors, raised, new_links]
\* lim is the limit argument of line 86
scrape_links(page, table, lim, fail_at) ==
  LET anchors == find_all(page, lim)
  IN  [anchors |-> anchors] @@ scrape_loop(anchors, table, <<>>, fail_at)

(***************************************************************************)
(* council_meetings: a set of rows; url is the PRIMARY KEY                 *)
(***************************************************************************)
insert_row_replace(table, row) ==
  [ok |-> TRUE, table |-> {r \in table : r.url # row.url} \cup {row}]
insert_row(table, row) ==
  IF \E r \in table : r.url = row.url
  THEN [ok |-> FALSE, table |-> table]
  ELSE [ok |-> TRUE, table |-> table \cup {row}]

\* the INSERT of line 291 run for each row inside the open transaction, up to
\* the first row that raises IntegrityError: [ok, table]
RECURSIVE execute_rows(_, _)
execute_rows(table, rows) ==
  IF rows = <<>> THEN [ok |-> TRUE, table |-> table]
  ELSE LET r == insert_row(table, Head(rows)) IN
       IF r.ok THEN execute_rows(r.table, Tail(rows))
       ELSE [ok |-> FALSE, table |-> r.table]

\* cursor.executemany and conn.commit: the rows are committed together, or
\* IntegrityError skips the commit and the rows inserted so far are lost
executemany(table, rows) ==
  LET r == execute_rows(table, rows) IN
  IF r.ok THEN r ELSE [ok |-> FALSE, table |-> table]

urls(table) == {row.url : row \in table}

(***************************************************************************)
(* post_to_twitter                                                         *)
(***************************************************************************)
username == "HuttCouncilNow"

\* line 216: in_reply_to_tweet_id
reply_to_first(prev_tweet_id, first_tweet_id) == first_tweet_id
in_reply_to_tweet_id(prev_tweet_id, first_tweet_id) == prev_tweet_id

\* lines 219-220: the id of the first post is kept
first_tweet_id_last(first_tweet_id, id) == Some(id)
first_tweet_id_after(first_tweet_id, id) ==
  IF first_tweet_id = None THEN Some(id) ELSE first_tweet_id

\* line 226
first_tweet_url(user, first_tweet_id) == [username |-> user, status |-> first_tweet_id]

\* lines 222-233: what post_to_twitter returns; raised says that an exception
\* reached the handler of line 231, which returns nothing
post_to_twitter_partial(first_tweet_id, raised) ==
  IF first_tweet_id = None THEN None
  ELSE Some(first_tweet_url(username, first_tweet_id[1]))
post_to_twitter(first_tweet_id, raised) ==
  IF raised \/ first_tweet_id = None THEN None
  ELSE Some(first_tweet_url(username, first_tweet_id[1]))

\* line 209: summary.splitlines(), which raises when summary is None
summary_splitlines_str(summary) ==
  IF summary = None THEN Some(<<<<Lit("None")>>>>) ELSE Some(splitlines(summary[1]))
summary_splitlines(summary) ==
  IF summary = None THEN None ELSE Some(splitlines(summary[1]))

(***************************************************************************)
(* State                                                                   *)
(***************************************************************************)
VARIABLES
  council_meetings,   \* the table of council_meetings.db
  timeline,           \* the posts on the platform, in the order created
  run,                \* per runner: the locals of main and of its callees
  active,             \* the runners started against this database
  site,               \* what the council site serves: any page, or pages of one link
  lookback,           \* the limit argument of line 86 in the deployed program
  runs                \* number of runs started so far

pipe_vars == <<council_meetings, timeline, run, active, site, lookback, runs>>
vars == <<seg_vars, pipe_vars>>

Runners == {1, 2}
MaxRuns == 2
MaxAnchors == 2

H_AGN1 == <<"A", "G", "N", "1", ".", "P", "D", "F">>
H_AGN2 == <<"A", "G", "N", "2", ".", "P", "D", "F">>
H_ROOT1 == <<"/">> \o H_AGN1
H_SUP1 == <<"A", "G", "N", "1", "S", "U", "P", ".", "P", "D", "F">>
H_MIN1 == <<"M", "I", "N", "1", ".", "P", "D", "F">>
H_HTM1 == <<"A", "G", "N", "1", ".", "H", "T", "M">>

TD_BR == [present |-> TRUE, br |-> TRUE, pre |-> "Council", post |-> "Chambers"]
TD_PLAIN == [present |-> TRUE, br |-> FALSE, pre |-> "Council", post |-> ""]
TD_EMPTY == [present |-> TRUE, br |-> FALSE, pre |-> "", post |-> ""]
TD_NONE == [present |-> FALSE, br |-> FALSE, pre |-> "", post |-> ""]

A_AGN1 == [href |-> H_AGN1, td |-> TD_BR]
A_AGN2 == [href |-> H_AGN2, td |-> TD_PLAIN]
A_ROOT1 == [href |-> H_ROOT1, td |-> TD_BR]

Anchors ==
  {A_AGN1, A_AGN2, A_ROOT1, [href |-> H_SUP1, td |-> TD_BR],
   [href |-> H_MIN1, td |-> TD_BR], [href |-> H_HTM1, td |-> TD_BR],
   [href |-> H_AGN2, td |-> TD_EMPTY], [href |-> H_AGN2, td |-> TD_NONE]}

Pages == SeqsUpTo(Anchors, MaxAnchors)
OneLinkPages == {<<A_AGN1>>, <<A_AGN2>>}
AgendaPages == SeqsUpTo({A_AGN1, A_AGN2, A_ROOT1}, MaxAnchors)
served(s) ==
  IF s = "one_link" THEN OneLinkPages
  ELSE IF s = "agendas" THEN AgendaPages
  ELSE Pages

\* what response.text can be
S_EMPTY == <<>>
S_HELLO == <<Lit("Hello"), SP, Lit("council.")>>
S_LONG == <<W("w270", 270)>>
ResponseTexts == {S_EMPTY, S_HELLO, S_LONG}

Idle ==
  [pc |-> "idle", outcome |-> "none", no |-> 0, page |-> <<>>, anchors |-> <<>>, failed |-> FALSE,
   published |-> <<>>, raised |-> FALSE, found_links |-> <<>>, i |-> 1, summary |-> None, tweet_chunks |-> <<>>, x |-> 0,
   prev_tweet_id |-> None, first_tweet_id |-> None, data_to_insert |-> <<>>]

\* the process is over: its locals are gone, its exit is what remains
Ended(pc, outcome) == [Idle EXCEPT !.pc = pc, !.outcome = outcome]

PipeIdle ==
  /\ council_meetings = {}
  /\ timeline = <<>>
  /\ run = [r \in Runners |-> Idle]
  /\ runs = 0

SegIdle ==
  /\ seg_pc = "off"
  /\ seg_limit = tweet_length_limit
  /\ seg_summary = <<>>
  /\ seg_lines = <<>>
  /\ seg_chunks = <<>>
  /\ seg_tweets = <<>>

Init == SegIdle /\ PipeIdle /\ active = {1} /\ site = "any" /\ lookback = limit
InitConc == SegIdle /\ PipeIdle /\ active = Runners /\ site = "one_link" /\ lookback = limit

committee_name(r) == run[r].found_links[run[r].i].committee_name
link(r) == run[r].found_links[run[r].i].link

\* lines 72, 282 and 81: the process starts, main calls scrape_links, which
\* fetches the page; requests.get returns a page or raises RequestException
Fetch(r) ==
  /\ r \in active
  /\ run[r].pc \in {"idle", "exit", "crash"}
  /\ runs < MaxRuns
  /\ runs' = runs + 1
  /\ \/ \E page \in served(site) :
          run' = [run EXCEPT ![r] =
                   [Idle EXCEPT !.pc = "fetched", !.no = runs + 1, !.page = page]]
     \/ run' = [run EXCEPT ![r] =
             [Idle EXCEPT !.pc = "loop", !.no = runs + 1, !.failed = TRUE]]
  /\ UNCHANGED <<council_meetings, timeline, active, site, lookback, seg_vars>>

\* lines 83-111: the anchors are found and filtered; a raise in
\* find_committee_name_from_link or in a download leaves main uncaught
Scan(r) ==
  /\ run[r].pc = "fetched"
  /\ \E fail_at \in 0..lookback :
       LET res == scrape_links(run[r].page, council_meetings, lookback, fail_at)
       IN  run' = [run EXCEPT ![r] =
             IF res.raised # "none" THEN Ended("crash", res.raised)
             ELSE [@ EXCEPT !.pc = "loop",
                            !.page = <<>>,
                            !.anchors = res.anchors,
                            !.found_links = res.new_links]]
  /\ UNCHANGED <<council_meetings, timeline, active, site, lookback, runs, seg_vars>>

\* lines 287-288 and the next iteration
collect_abort(r, summary, x_link) ==
  LET keep == /\ committee_name(r) # ""
              /\ link(r) # <<>>
              /\ x_link # None
              /\ summary # None /\ summary[1] # <<>>
  IN  IF x_link = None THEN Ended("crash", "Exception")
      ELSE [run[r] EXCEPT
         !.pc = "loop",
         !.i = @ + 1,
         !.summary = summary,
         !.published = Append(@, TRUE),
         !.data_to_insert =
            IF keep
            THEN Append(@, [committee_name |-> committee_name(r), url |-> link(r),
                            x_url |-> x_link[1], summary |-> summary[1]])
            ELSE @]
collect(r, summary, x_link) ==
  LET keep == /\ committee_name(r) # ""
              /\ link(r) # <<>>
              /\ x_link # None
              /\ summary # None /\ summary[1] # <<>>
  IN  [run[r] EXCEPT
         !.pc = "loop",
         !.i = @ + 1,
         !.summary = summary,
         !.failed = @ \/ x_link = None,
         !.published = Append(@, x_link # None),
         !.data_to_insert =
            IF keep
            THEN Append(@, [committee_name |-> committee_name(r), url |-> link(r),
                            x_url |-> x_link[1], summary |-> summary[1]])
            ELSE @]

\* line 285, then lines 198-212 of post_to_twitter: the summarizer returns
\* text or None
Summarize(r) ==
  /\ run[r].pc = "loop"
  /\ run[r].i <= Len(run[r].found_links)
  /\ \E summary \in {None} \cup {Some(t) : t \in ResponseTexts} :
       LET lines == summary_splitlines(summary) IN
       IF lines = None
       THEN \* caught at line 231
            run' = [run EXCEPT ![r] =
              [collect(r, summary, post_to_twitter(None, TRUE)) EXCEPT !.raised = TRUE]]
       ELSE run' = [run EXCEPT ![r] =
              [@ EXCEPT !.pc = "tweeting",
                        !.summary = summary,
                        !.raised = FALSE,
                        !.tweet_chunks = generate_tweet(lines[1]),
                        !.x = 0,
                        !.prev_tweet_id = None,
                        !.first_tweet_id = None]]
  /\ UNCHANGED <<council_meetings, timeline, active, site, lookback, runs, seg_vars>>

\* lines 214-220: one iteration, create_tweet returns an id or raises
CreateTweet(r) ==
  /\ run[r].pc = "tweeting"
  /\ run[r].x < Len(run[r].tweet_chunks)
  /\ \/ LET id == Len(timeline) + 1
            tweet == render(run[r].tweet_chunks[run[r].x + 1], run[r].x,
                            Len(run[r].tweet_chunks))
        IN  /\ timeline' = Append(timeline,
                  [id |-> id, text |-> tweet,
                   in_reply_to |-> in_reply_to_tweet_id(run[r].prev_tweet_id,
                                                        run[r].first_tweet_id),
                   link |-> link(r), by |-> r, no |-> run[r].no, doc |-> run[r].i,
                   x |-> run[r].x,
                   total |-> Len(run[r].tweet_chunks)])
            /\ run' = [run EXCEPT ![r] =
                  [@ EXCEPT !.prev_tweet_id = Some(id),
                            !.first_tweet_id = first_tweet_id_after(@, id),
                            !.x = @ + 1]]
     \/ /\ timeline' = timeline
        /\ run' = [run EXCEPT ![r] =
              [collect(r, run[r].summary, post_to_twitter(run[r].first_tweet_id, TRUE))
                 EXCEPT !.raised = TRUE]]
  /\ UNCHANGED <<council_meetings, active, site, lookback, runs, seg_vars>>

\* lines 221-229: the loop is over; get_me returns the user or raises
Finish(r) ==
  /\ run[r].pc = "tweeting"
  /\ run[r].x = Len(run[r].tweet_chunks)
  /\ \E ok \in BOOLEAN :
       /\ ok \/ run[r].first_tweet_id # None
       /\ LET x_link == post_to_twitter(run[r].first_tweet_id, ~ok)
          IN  run' = [run EXCEPT ![r] =
                [collect(r, run[r].summary, x_link) EXCEPT !.raised = ~ok]]
  /\ UNCHANGED <<council_meetings, timeline, active, site, lookback, runs, seg_vars>>

\* lines 290-298: the rows are inserted and committed, or IntegrityError is
\* logged and the open transaction is lost with the process
Insert(r) ==
  /\ run[r].pc = "loop"
  /\ run[r].i > Len(run[r].found_links)
  /\ LET rows == [k \in 1..Len(run[r].data_to_insert) |->
                    [timestamp |-> runs] @@ run[r].data_to_insert[k]]
         res == executemany(council_meetings, rows)
     IN  /\ council_meetings' = res.table
         /\ run' = [run EXCEPT ![r] =
               Ended("exit", IF res.ok THEN "closed" ELSE "IntegrityError")]
  /\ UNCHANGED <<timeline, active, site, lookback, runs, seg_vars>>

Next ==
  \E r \in Runners :
    Fetch(r) \/ Scan(r) \/ Summarize(r) \/ CreateTweet(r) \/ Finish(r) \/ Insert(r)

Spec == Init /\ [][Next]_vars
SpecConc == InitConc /\ [][Next]_vars

\* the program with the limit of line 86 adjusted, as line 85 provides for:
\* a run can then discover more than one document. The site lists agenda
\* links only, and one earlier run has ended without finding anything.
InitLookback ==
  /\ SegIdle
  /\ council_meetings = {}
  /\ timeline = <<>>
  /\ run = [r \in Runners |-> Idle]
  /\ runs = 1
  /\ active = {1} /\ site = "agendas" /\ lookback = limit + 1
SpecLookback == InitLookback /\ [][Next]_vars


(***************************************************************************)
(* The segmenter on its own: post_to_twitter line 209 on any summary       *)
(***************************************************************************)
SegInit ==
  /\ PipeIdle /\ active = {} /\ site = "any" /\ lookback = limit
  /\ seg_pc = "summary"
  /\ \/ seg_limit = tweet_length_limit /\ seg_summary \in Summaries
     \/ seg_limit = ExampleBudget /\ seg_summary \in ExampleSummaries
  /\ seg_lines = <<>>
  /\ seg_chunks = <<>>
  /\ seg_tweets = <<>>

\* line 209: summary.splitlines()
SegSplitlines ==
  /\ seg_pc = "summary"
  /\ seg_lines' = splitlines(seg_summary)
  /\ seg_pc' = "lines"
  /\ UNCHANGED <<seg_limit, seg_summary, seg_chunks, seg_tweets, pipe_vars>>

\* line 209: generate_tweet(...)
SegGenerate ==
  /\ seg_pc = "lines"
  /\ seg_chunks' = generate_tweet_limit(seg_lines, seg_limit)
  /\ seg_pc' = "chunks"
  /\ UNCHANGED <<seg_limit, seg_summary, seg_lines, seg_tweets, pipe_vars>>

\* lines 214-215: every chunk with its suffix
SegRender ==
  /\ seg_pc = "chunks"
  /\ seg_tweets' = [k \in 1..Len(seg_chunks) |-> render(seg_chunks[k], k - 1, Len(seg_chunks))]
  /\ seg_pc' = "tweets"
  /\ UNCHANGED <<seg_limit, seg_summary, seg_lines, seg_chunks, pipe_vars>>

SegNext == SegSplitlines \/ SegGenerate \/ SegRender
SegSpec == SegInit /\ [][SegNext]_vars

(***************************************************************************)
(* Properties                                                              *)
(***************************************************************************)
first_candidate_catalogued(r) ==
  /\ run[r].pc = "loop"
  /\ run[r].anchors # <<>>
  /\ is_agenda(run[r].anchors[1].href)
  /\ urljoin(COUNCIL_URL, run[r].anchors[1].href) \in urls(council_meetings)

\* C1: once a row for a url is committed, no later step of the runner
\* summarizes that document or posts a chunk for it: every call of the
\* summarizer and every create_tweet is for a url that has no row.
C1_NeverReprocessed ==
  [][\A r \in Runners :
       (Summarize(r) \/ CreateTweet(r)) => link(r) \notin urls(council_meetings)]_vars

C1_Witness ==
  \E r \in Runners :
    /\ first_candidate_catalogued(r)
    /\ run[r].anchors[1].href = H_AGN1
    /\ run[r].found_links = <<>>
    /\ \E t \in 1..Len(timeline) : timeline[t].no < run[r].no

\* C2: the table never holds two rows with one url, and an executemany that
\* carries a url already in the table raises IntegrityError and leaves the
\* table as it was.
C2_OneRowPerUrl ==
  /\ [](\A a, b \in council_meetings : a.url = b.url => a = b)
  /\ [][\A r \in Runners :
          (/\ Insert(r)
           /\ \E k \in 1..Len(run[r].data_to_insert) :
                run[r].data_to_insert[k].url \in urls(council_meetings))
          => /\ council_meetings' = council_meetings
             /\ run'[r].outcome = "IntegrityError"]_vars

C2_Witness ==
  \E r \in Runners :
    /\ run[r].outcome = "IntegrityError"
    /\ council_meetings # {}

\* C3: every pair scrape_links returns has a url with no row in the table at
\* the time of the scan.
C3_DiscoverOnlyNew ==
  [][\A r \in Runners :
       Scan(r) => \A k \in 1..Len(run'[r].found_links) :
                    run'[r].found_links[k].link \notin urls(council_meetings)]_vars

C3_Witness ==
  \E r \in Runners :
    /\ first_candidate_catalogued(r)
    /\ run[r].anchors[1].href = H_ROOT1
    /\ run[r].found_links = <<>>

\* a page of two agenda links with their committee cells, one url with a row
\* and one without; new_of gives the one without
well_formed(a) ==
  /\ is_agenda(a.href)
  /\ find_committee_name_from_link(a) \notin {None, Some("")}
two_agenda_links(page, table) ==
  /\ Len(page) = 2
  /\ well_formed(page[1]) /\ well_formed(page[2])
  /\ \E k \in 1..2 :
       /\ urljoin(COUNCIL_URL, page[k].href) \in urls(table)
       /\ urljoin(COUNCIL_URL, page[3 - k].href) \notin urls(table)
new_of(page, table) ==
  LET k == CHOOSE j \in 1..2 : urljoin(COUNCIL_URL, page[j].href) \notin urls(table)
  IN  urljoin(COUNCIL_URL, page[k].href)

posts_of(r) == {t \in 1..Len(timeline) : timeline[t].by = r /\ timeline[t].no = run[r].no}

\* C4: on a page of two agenda links, one catalogued and one new, in either
\* order, scrape_links returns exactly the new link; and a run that found one
\* link and had every call succeed ends with exactly one new row and one
\* complete thread.
C4_TwoLinksEitherOrder ==
  /\ [][\A r \in Runners :
          (/\ Scan(r)
           /\ two_agenda_links(run[r].page, council_meetings)
           /\ run'[r].pc = "loop")
          => /\ Len(run'[r].found_links) = 1
             /\ run'[r].found_links[1].link = new_of(run[r].page, council_meetings)]_vars
  /\ [][\A r \in Runners :
          (/\ Insert(r)
           /\ Len(run[r].found_links) = 1
           /\ ~run[r].failed
           /\ run[r].found_links[1].committee_name # ""
           /\ run[r].summary \notin {None, Some(<<>>)})
          => /\ council_meetings' # council_meetings
             /\ council_meetings' \ council_meetings =
                  {row \in council_meetings' : row.url = run[r].found_links[1].link}
             /\ Cardinality(council_meetings' \ council_meetings) = 1
             /\ Cardinality(posts_of(r)) = Len(run[r].tweet_chunks)
             /\ Cardinality({t \in posts_of(r) : timeline[t].in_reply_to = None}) = 1]_vars

\* C5: scrape_links never returns a link whose path contains SUP.
C5_NoSupplementary ==
  \A r \in Runners : \A k \in 1..Len(run[r].found_links) :
    ~contains(run[r].found_links[k].link, SUP)

C5_Witness ==
  \E r \in Runners :
    /\ run[r].pc = "loop"
    /\ run[r].anchors # <<>>
    /\ contains(run[r].anchors[1].href, SUP)
    /\ contains(run[r].anchors[1].href, AGN)
    /\ endswith(run[r].anchors[1].href, PDF)
    /\ run[r].found_links = <<>>
    /\ ~run[r].failed

\* C6: the empty summary gives no chunk.
C6_EmptySummary ==
  (seg_pc \in {"chunks", "tweets"} /\ seg_summary = <<>>) => seg_chunks = <<>>

C6_Witness == seg_pc = "chunks" /\ seg_summary = <<>> /\ seg_chunks = <<>>

\* C7: a non-empty summary of fewer than 270 characters, in one line or in
\* several, gives exactly one chunk, and it is posted with the suffix (1/1).
C7_UnderBudgetOneChunk ==
  (/\ seg_pc = "tweets"
   /\ seg_limit = tweet_length_limit
   /\ seg_summary # <<>>
   /\ len(seg_summary) < tweet_length_limit)
  => /\ Len(seg_chunks) = 1
     /\ seg_tweets = <<seg_chunks[1] \o <<SP, [ch |-> "(1/1)", n |-> 5]>> >>

C7_Witness ==
  /\ seg_pc = "tweets"
  /\ seg_limit = tweet_length_limit
  /\ len(seg_summary) = tweet_length_limit - 1
  /\ Len(seg_lines) = 2
  /\ Len(seg_tweets) = 1

RECURSIVE longest(_)
longest(words) ==
  IF words = <<>> THEN 0
  ELSE LET m == longest(Tail(words)) IN
       IF len(Head(words)) > m THEN len(Head(words)) ELSE m

\* C8: no rendered chunk is longer than the budget plus the length of one
\* word of the summary.
C8_RenderedWithinBudget ==
  seg_pc = "tweets" =>
    \A k \in 1..Len(seg_tweets) :
      len(seg_tweets[k]) <= seg_limit + longest(split(seg_summary))

\* the accumulator-flush rule as stated, the separating space counted (sep = 1)
\* or not (sep = 0): [chunks, acc] after the lines
RECURSIVE accumulate(_, _, _, _)
accumulate(lines, k, budget, sep) ==
  IF k = 0 THEN [chunks |-> <<>>, acc |-> <<>>]
  ELSE LET before == accumulate(lines, k - 1, budget, sep)
           line == lines[k]
       IN  IF len(before.acc) + len(line) + sep >= budget
           THEN [chunks |-> Append(before.chunks, before.acc), acc |-> line]
           ELSE [chunks |-> before.chunks, acc |-> before.acc \o line \o <<SP>>]
by_rule(lines, budget, sep) ==
  LET end == accumulate(lines, Len(lines), budget, sep)
  IN  IF end.acc # <<>> THEN Append(end.chunks, end.acc) ELSE end.chunks

all_short == \A k \in 1..Len(seg_lines) : len(seg_lines[k]) < seg_limit
example_chunks ==
  << ExampleLines[1] \o <<SP>> \o ExampleLines[2] \o <<SP>>, ExampleLines[3] >>
example_holds ==
  (seg_limit = ExampleBudget /\ seg_lines = ExampleLines) => seg_chunks = example_chunks

\* C9 as stated: the accumulator is flushed when its length plus the line
\* plus a separating space reaches the budget.
C9_FlushCountingSeparator ==
  (seg_pc = "chunks" /\ all_short) =>
    /\ seg_chunks = by_rule(seg_lines, seg_limit, 1)
    /\ example_holds

\* C9: when every line is shorter than the budget, the accumulator is flushed
\* and restarted from the line exactly when its length plus the line's length
\* reaches the budget, else the line and a space are appended; what remains is
\* flushed at the end.  Budget 20 and the lines one two / three four /
\* five six seven give the chunks "one two three four " and "five six seven".
C9_FlushRule ==
  (seg_pc = "chunks" /\ all_short) =>
    /\ seg_chunks = by_rule(seg_lines, seg_limit, 0)
    /\ example_holds

C9_Witness ==
  /\ seg_pc = "chunks"
  /\ seg_limit = ExampleBudget
  /\ seg_lines = ExampleLines
  /\ Len(seg_chunks) = 2

same_thread(a, b) == a.by = b.by /\ a.no = b.no /\ a.link = b.link

\* C10: the posts of a thread are made in index order 0, 1, 2, ...; the first
\* has no parent and each later one replies to the post made just before it in
\* the thread; the posts of the thread being published are the first x chunks.
C10_LinearChain ==
  /\ \A t \in 1..Len(timeline) :
       LET earlier == {u \in 1..(t - 1) : same_thread(timeline[u], timeline[t])} IN
       /\ timeline[t].x = Cardinality(earlier)
       /\ timeline[t].x = 0 => timeline[t].in_reply_to = None
       /\ timeline[t].x > 0 =>
            \E u \in earlier :
              /\ timeline[u].x = timeline[t].x - 1
              /\ timeline[t].in_reply_to = Some(timeline[u].id)
  /\ \A r \in Runners :
       run[r].pc = "tweeting" =>
         /\ Cardinality(posts_of(r)) = run[r].x
         /\ \A t \in posts_of(r) :
              timeline[t].text = render(run[r].tweet_chunks[timeline[t].x + 1],
                                        timeline[t].x, Len(run[r].tweet_chunks))

C10_Witness ==
  \E t \in 1..Len(timeline) :
    /\ timeline[t].x = 2
    /\ timeline[t].in_reply_to = Some(t - 1)
    /\ timeline[t - 1].in_reply_to = Some(t - 2)
    /\ timeline[t - 2].in_reply_to = None

\* the posts made for the document the runner is working on
posts_of_document(r) ==
  {t \in 1..Len(timeline) :
     timeline[t].by = r /\ timeline[t].no = run[r].no /\ timeline[t].doc = run[r].i}

\* an exception of create_tweet or of get_me ends post_to_twitter for the
\* document in hand
publish_fails(r) ==
  /\ run[r].pc = "tweeting"
  /\ run'[r].pc = "loop"
  /\ run'[r].raised

\* C11: no step removes or alters a post; when post_to_twitter fails after at
\* least one post (at a later create_tweet or at get_me), the posts made stay,
\* no row is queued for the document, and the insert at the end of the run
\* writes no row for it; a later scan whose candidate is that document, still
\* without a row, returns it again.
C11_PartialThreadNotRecorded ==
  /\ [][/\ Len(timeline) <= Len(timeline')
        /\ SubSeq(timeline', 1, Len(timeline)) = timeline]_vars
  /\ [][\A r \in Runners :
          (publish_fails(r) /\ run[r].x >= 1)
          => /\ timeline' = timeline
             /\ Cardinality(posts_of_document(r)) = run[r].x
             /\ run'[r].data_to_insert = run[r].data_to_insert]_vars
  /\ [][\A r \in Runners :
          (Insert(r) /\ run[r].found_links # <<>> /\ run[r].raised)
          => \A row \in council_meetings' \ council_meetings :
               row.url # run[r].found_links[Len(run[r].found_links)].link]_vars
  /\ [][\A r \in Runners :
          (/\ Scan(r)
           /\ run'[r].pc = "loop"
           /\ run'[r].anchors # <<>>
           /\ is_agenda(run'[r].anchors[1].href)
           /\ LET url == urljoin(COUNCIL_URL, run'[r].anchors[1].href) IN
               /\ url \notin urls(council_meetings)
               /\ \E t \in 1..Len(timeline) : timeline[t].link = url)
          => \E k \in 1..Len(run'[r].found_links) :
               run'[r].found_links[k].link =
                 urljoin(COUNCIL_URL, run'[r].anchors[1].href)]_vars

\* a second run publishes a document of which an earlier run left a thread
\* cut short after its first post
C11_Witness ==
  \E r \in Runners :
    /\ run[r].pc = "tweeting"
    /\ run[r].x >= 1
    /\ link(r) \notin urls(council_meetings)
    /\ \E t \in 1..Len(timeline) :
         /\ timeline[t].link = link(r)
         /\ timeline[t].no < run[r].no
         /\ timeline[t].total > 1
         /\ \A u \in 1..Len(timeline) :
              timeline[u].no = timeline[t].no => timeline[u].x = 0

working(r) == run[r].pc \in {"loop", "tweeting"}

\* the rows queued are those of the documents handled so far for which
\* post_to_twitter returned a url, in the order of found_links
queued(r) ==
  LET done == {k \in 1..Len(run[r].published) :
                 run[r].published[k] /\ run[r].found_links[k].committee_name # ""}
  IN  /\ Len(run[r].data_to_insert) = Cardinality(done)
      /\ \A k \in done :
           run[r].data_to_insert[Cardinality({j \in done : j <= k})].url =
             run[r].found_links[k].link

\* C12: the documents of found_links are handled one at a time in their
\* order; a failed summary, an empty list of chunks or a failed post ends only
\* the handling of that document: the run goes on to the next document and
\* ends only after the last one, the rows of the documents that succeeded are
\* queued, and they are committed when no url of the batch has a row.
C12_FailureDoesNotAbort ==
  /\ [](\A r \in Runners :
         working(r) =>
           /\ run[r].i <= Len(run[r].found_links) + 1
           /\ Len(run[r].published) = run[r].i - 1
           /\ queued(r))
  /\ [][\A r \in Runners :
          working(r) =>
            /\ run'[r].pc \in {"loop", "tweeting", "exit"}
            /\ working(r)' =>
                 /\ run'[r].found_links = run[r].found_links
                 /\ run'[r].i \in {run[r].i, run[r].i + 1}
            /\ run'[r].pc = "exit" => run[r].i = Len(run[r].found_links) + 1]_vars
  /\ [][\A r \in Runners :
          (/\ Insert(r)
           /\ \A j, k \in 1..Len(run[r].data_to_insert) :
                /\ run[r].data_to_insert[k].url \notin urls(council_meetings)
                /\ run[r].data_to_insert[j].url = run[r].data_to_insert[k].url => j = k)
          => \A k \in 1..Len(run[r].data_to_insert) :
               \E row \in council_meetings' :
                 /\ row.url = run[r].data_to_insert[k].url
                 /\ row.x_url = run[r].data_to_insert[k].x_url]_vars

\* the first of two documents failed and the second has been published and
\* queued
C12_Witness ==
  \E r \in Runners :
    /\ run[r].pc = "loop"
    /\ run[r].published = <<FALSE, TRUE>>
    /\ run[r].found_links[1].link # run[r].found_links[2].link
    /\ Len(run[r].data_to_insert) = 1
    /\ run[r].data_to_insert[1].url = run[r].found_links[2].link
    /\ \E t \in 1..Len(timeline) : timeline[t].doc = 2 /\ timeline[t].x = 0

thread_of(t) ==
  {u \in 1..Len(timeline) :
     /\ timeline[u].by = timeline[t].by
     /\ timeline[u].no = timeline[t].no
     /\ timeline[u].doc = timeline[t].doc}

\* C13: every row of council_meetings has a non-empty summary and the url of
\* the first post of a thread made for the row's document, of which every
\* chunk has been posted; and no step removes or changes a row.
C13_RowsOfCompleteThreads ==
  /\ [](\A row \in council_meetings :
         /\ row.summary # <<>>
         /\ \E t \in 1..Len(timeline) :
              /\ row.x_url = first_tweet_url(username, timeline[t].id)
              /\ timeline[t].link = row.url
              /\ timeline[t].x = 0
              /\ timeline[t].total >= 1
              /\ {timeline[u].x : u \in thread_of(t)} = 0..(timeline[t].total - 1))
  /\ [][council_meetings \subseteq council_meetings']_vars

\* a row whose thread has three posts, and a later run that added nothing
C13_Witness ==
  \E row \in council_meetings :
    /\ \E t \in 1..Len(timeline) :
         /\ row.x_url = first_tweet_url(username, timeline[t].id)
         /\ timeline[t].total = 3
    /\ row.timestamp < runs
    /\ \E r \in Runners : run[r].pc = "exit"

C15_EmptySummaryFails ==
  /\ [](\A r \in Runners :
         (run[r].pc = "tweeting" /\ run[r].summary = Some(S_EMPTY)) =>
           /\ run[r].tweet_chunks = <<>>
           /\ posts_of_document(r) = {})
  /\ [][\A r \in Runners :
          (/\ run[r].pc = "tweeting"
           /\ run[r].summary = Some(S_EMPTY)
           /\ run'[r] # run[r])
          => /\ timeline' = timeline
             /\ run'[r].pc = "loop"
             /\ run'[r].i = run[r].i + 1
             /\ run'[r].data_to_insert = run[r].data_to_insert]_vars
  /\ [][\A r \in Runners :
          (Insert(r) /\ run[r].found_links # <<>> /\ run[r].summary = Some(S_EMPTY))
          => \A row \in council_meetings' \ council_meetings :
               row.url # run[r].found_links[Len(run[r].found_links)].link]_vars

\* the document has been given up after an empty summary, without an
\* exception, and the run is about to end
C15_Witness ==
  \E r \in Runners :
    /\ run[r].pc = "loop"
    /\ run[r].i = 2
    /\ run[r].summary = Some(S_EMPTY)
    /\ ~ run[r].raised
    /\ run[r].published = <<FALSE>>
    /\ run[r].data_to_insert = <<>>
    /\ timeline = <<>>

\* C16: when summarize_with_gemini returns no text, the handling of the
\* document ends in the same step with no post made and no row queued; no
\* create_tweet is ever made for a document without a summary; and the insert
\* at the end of the run writes no row for it.
C16_NoSummaryFails ==
  /\ [][\A r \in Runners :
          (Summarize(r) /\ run'[r].summary = None)
          => /\ timeline' = timeline
             /\ run'[r].pc = "loop"
             /\ run'[r].i = run[r].i + 1
             /\ run'[r].data_to_insert = run[r].data_to_insert]_vars
  /\ [][\A r \in Runners :
          (CreateTweet(r) \/ Finish(r)) => run[r].summary # None]_vars
  /\ [][\A r \in Runners :
          (Insert(r) /\ run[r].found_links # <<>> /\ run[r].summary = None)
          => \A row \in council_meetings' \ council_meetings :
               row.url # run[r].found_links[Len(run[r].found_links)].link]_vars

\* the document has been given up after the summarizer returned nothing
C16_Witness ==
  \E r \in Runners :
    /\ run[r].pc = "loop"
    /\ run[r].i = 2
    /\ Len(run[r].found_links) = 1
    /\ run[r].summary = None
    /\ run[r].raised
    /\ run[r].data_to_insert = <<>>
    /\ timeline = <<>>

\* C17: no chunk that generate_tweet returns is the empty string, whatever
\* the summary: before an over-long line the accumulator is flushed only when
\* it holds text.
C17_NoEmptyChunk ==
  seg_pc \in {"chunks", "tweets"} =>
    \A k \in 1..Len(seg_chunks) : seg_chunks[k] # <<>>

\* the words met when the chunks are read in order
RECURSIVE words_of(_)
words_of(chunks) ==
  IF chunks = <<>> THEN <<>> ELSE split(Head(chunks)) \o words_of(Tail(chunks))

\* C20: for a summary whose lines are all shorter than the limit, the words
\* of the chunks read in order are the words of the summary in order.
C20_WordsPreserved ==
  (seg_pc \in {"chunks", "tweets"} /\ seg_limit = tweet_length_limit /\ all_short)
  => words_of(seg_chunks) = split(seg_summary)

\* the candidate of the scan has no committee cell before it and no row
no_committee_cell(r) ==
  LET found == find_all(run[r].page, lookback) IN
  /\ found # <<>>
  /\ is_agenda(found[1].href)
  /\ urljoin(COUNCIL_URL, found[1].href) \notin urls(council_meetings)
  /\ ~ found[1].td.present

\* C18: for a candidate link with no committee cell before it,
\* find_committee_name_from_link raises nothing, and a scan that comes to its
\* end returns the link with the name "Unknown Committee".
C18_UnknownCommittee ==
  [][\A r \in Runners :
       (Scan(r) /\ no_committee_cell(r))
       => /\ run'[r].outcome # "AttributeError"
          /\ run'[r].pc = "loop" =>
               run'[r].found_links =
                 << [committee_name |-> "Unknown Committee",
                     link |-> urljoin(COUNCIL_URL,
                               find_all(run[r].page, lookback)[1].href)] >>]_vars

\* C19: no run ends with an exception that left main uncaught: the index
\* fetch, the downloads, find_committee_name_from_link, the summarizer and the
\* posting all leave the run on its way to conn.close().
C19_NoAbnormalEnd ==
  \A r \in Runners : run[r].pc # "crash"

====
